---- MODULE Spec2Model ----
(***************************************************************************)
(* The Kodu tile language (namespace kodu): the tile catalog, the          *)
(* constraint merge, the suggestion engine, the rule/page/brain data model *)
(* and its compact codec.                                                  *)
(*                                                                         *)
(* Conventions.                                                            *)
(*  - A JavaScript object is a function from its keys to their values; a   *)
(*    key that is absent is not in the DOMAIN (Has).                       *)
(*  - A tile reference held by a rule is a reference to an entry of the    *)
(*    shared catalog, written as the key of that entry in its partition;   *)
(*    the fields of the tile (tid, category, constraints, ...) are read    *)
(*    through the catalog.  Undefined stands for JavaScript's undefined.   *)
(*  - Array.prototype.sort is taken to be stable (ECMAScript 2019).        *)
(***************************************************************************)
EXTENDS Integers, Sequences, FiniteSets, TLC

VARIABLES rule, out, idx, brain, obj, op,
          heap, orig, copy, side, edits, swapped

vars == <<rule, out, idx, brain, obj, op, heap, orig, copy, side, edits, swapped>>

(* The object graph of the brains that are cloned, and the record of how a
   rule was authored: used by the specifications of cloning and of
   authoring, and left alone by the others. *)
aux == <<heap, orig, copy, side, edits, swapped>>

AuxInit ==
  /\ heap = <<>>
  /\ orig = 0
  /\ copy = 0
  /\ side = "none"
  /\ edits = 0
  /\ swapped = FALSE

(* ------------------------------ bounds --------------------------------- *)

(* Largest number of filters plus modifiers in a rule record that is loaded. *)
MaxTiles == 2

(* Largest number of rule records in a brain record that is decoded. *)
MaxRules == 2

(* ------------------------- JavaScript values --------------------------- *)

Undefined == "undefined"

EmptyObj == [k \in {} |-> TRUE]

Has(o, k) == k \in DOMAIN o

(* A null or undefined constraints argument of mergeConstraints. *)
Null == [null |-> TRUE]

(* Array.prototype.map over a sequence. *)
Map(s, F(_)) == [i \in 1..Len(s) |-> F(s[i])]

(* Array.prototype.some over a sequence. *)
Some(s, P(_)) == \E i \in 1..Len(s) : P(s[i])

(* ----------------------------- TileType -------------------------------- *)

SENSOR == 1
FILTER == 2
ACTUATOR == 3
MODIFIER == 4

(* ---------------------------- RuleCondition ---------------------------- *)

RuleCondition ==
  [DEFAULT |-> "RC0", HIGH |-> "RC1", LOW |-> "RC2",
   HIGH_TO_LOW |-> "RC3", LOW_TO_HIGH |-> "RC4"]

(* ------------------------------ catalog -------------------------------- *)

(* The object literal of tiles.sensors, one <<key, value>> pair per entry, in
   declaration order. *)
tiles_sensors_literal ==
  << <<"S1", [type |-> SENSOR, tid |-> "S1", name |-> "Always", phase |-> "pre", hidden |-> TRUE]>>,
     <<"S2", [type |-> SENSOR, tid |-> "S2", name |-> "See", phase |-> "pre", weight |-> 1, constraints |-> [provides |-> <<"target">>, allow |-> [categories |-> <<"subject", "direct-subject", "distance", "expression">>], disallow |-> [tiles |-> <<"F6">>]]]>>,
     <<"S3", [type |-> SENSOR, tid |-> "S3", name |-> "Bump", phase |-> "pre", weight |-> 2, constraints |-> [provides |-> <<"target">>, allow |-> [categories |-> <<"subject", "direct-subject", "expression">>], disallow |-> [tiles |-> <<"F6">>]]]>>,
     <<"S4", [type |-> SENSOR, tid |-> "S4", name |-> "DPad", phase |-> "pre", constraints |-> [provides |-> <<"input", "direction">>, allow |-> [categories |-> <<"dpad-direction", "button-event">>]]]>>,
     <<"S5", [type |-> SENSOR, tid |-> "S5", name |-> "A", phase |-> "pre", constraints |-> [provides |-> <<"input">>, allow |-> [categories |-> <<"button-event">>]]]>>,
     <<"S6", [type |-> SENSOR, tid |-> "S6", name |-> "B", phase |-> "pre", constraints |-> [provides |-> <<"input">>, allow |-> [categories |-> <<"button-event">>]]]>>,
     <<"S7", [type |-> SENSOR, tid |-> "S7", name |-> "Timer", phase |-> "post", constraints |-> [allow |-> [categories |-> <<"timespan">>]]]>> >>

(* The object literal of tiles.filters, one <<key, value>> pair per entry, in
   declaration order. *)
tiles_filters_literal ==
  << <<"F1", [type |-> FILTER, tid |-> "F1", name |-> "Kodu", category |-> "subject", priority |-> 10, constraints |-> [provides |-> <<"target">>, disallow |-> [categories |-> <<"subject", "direct-subject">>]]]>>,
     <<"F2", [type |-> FILTER, tid |-> "F2", name |-> "Tree", category |-> "subject", priority |-> 10, constraints |-> [provides |-> <<"target">>, disallow |-> [categories |-> <<"subject", "direct-subject">>]]]>>,
     <<"F3", [type |-> FILTER, tid |-> "F3", name |-> "Apple", category |-> "subject", priority |-> 10, constraints |-> [provides |-> <<"target">>, disallow |-> [categories |-> <<"subject", "direct-subject">>]]]>>,
     <<"F4", [type |-> FILTER, tid |-> "F4", name |-> "nearby", category |-> "distance", priority |-> 10, constraints |-> [provides |-> <<"target">>, disallow |-> [tiles |-> <<"F5">>], handling |-> ("max-count" :> 3)]]>>,
     <<"F5", [type |-> FILTER, tid |-> "F5", name |-> "far away", category |-> "distance", priority |-> 10, constraints |-> [provides |-> <<"target">>, disallow |-> [tiles |-> <<"F4">>], handling |-> ("max-count" :> 3)]]>>,
     <<"F8", [type |-> FILTER, tid |-> "F8", name |-> "short", category |-> "timespan", priority |-> 10, constraints |-> EmptyObj]>>,
     <<"F9", [type |-> FILTER, tid |-> "F9", name |-> "long", category |-> "timespan", priority |-> 10, constraints |-> EmptyObj]>>,
     <<"F10", [type |-> FILTER, tid |-> "F10", name |-> "none", category |-> "expression", priority |-> 10, constraints |-> [disallow |-> [categories |-> <<"expression">>]]]>>,
     <<"F10", [type |-> FILTER, tid |-> "F10", name |-> "none", category |-> "expression", priority |-> 10, constraints |-> [disallow |-> [categories |-> <<"expression">>]]]>>,
     <<"F11", [type |-> FILTER, tid |-> "F11", name |-> "happy", category |-> "expression", priority |-> 10, constraints |-> [disallow |-> [categories |-> <<"expression">>]]]>>,
     <<"F12", [type |-> FILTER, tid |-> "F12", name |-> "angry", category |-> "expression", priority |-> 10, constraints |-> [disallow |-> [categories |-> <<"expression">>]]]>>,
     <<"F13", [type |-> FILTER, tid |-> "F13", name |-> "heart", category |-> "expression", priority |-> 10, constraints |-> [disallow |-> [categories |-> <<"expression">>]]]>>,
     <<"F14", [type |-> FILTER, tid |-> "F14", name |-> "sad", category |-> "expression", priority |-> 10, constraints |-> [disallow |-> [categories |-> <<"expression">>]]]>> >>

(* The object literal of tiles.actuators, one <<key, value>> pair per entry, in
   declaration order. *)
tiles_actuators_literal ==
  << <<"A1", [type |-> ACTUATOR, tid |-> "A1", name |-> "Move", category |-> "movement", constraints |-> [allow |-> [categories |-> <<"speed", "direction", "direct-object">>]]]>>,
     <<"A2", [type |-> ACTUATOR, tid |-> "A2", name |-> "Switch page", constraints |-> [allow |-> [categories |-> <<"page">>]]]>>,
     <<"A3", [type |-> ACTUATOR, tid |-> "A3", name |-> "Express", constraints |-> [allow |-> [categories |-> <<"expression">>]]]>>,
     <<"A4", [type |-> ACTUATOR, tid |-> "A4", name |-> "Boom", hidden |-> TRUE, constraints |-> [allow |-> [categories |-> <<"direct-object">>]]]>>,
     <<"A5", [type |-> ACTUATOR, tid |-> "A5", name |-> "Vanish", constraints |-> [allow |-> [categories |-> <<"direct-object">>]]]>>,
     <<"A6", [type |-> ACTUATOR, tid |-> "A6", name |-> "Keep in view", constraints |-> [allow |-> [categories |-> <<"direct-object">>]]]>> >>

(* The object literal of tiles.modifiers, one <<key, value>> pair per entry, in
   declaration order. *)
tiles_modifiers_literal ==
  << <<"M1", [type |-> MODIFIER, tid |-> "M1", name |-> "me", category |-> "direct-object", priority |-> 10, constraints |-> [produces |-> <<"direct-target">>, requires |-> <<"target">>, disallow |-> [categories |-> <<"object", "direct-object">>]]]>>,
     <<"M2", [type |-> MODIFIER, tid |-> "M2", name |-> "it", category |-> "direct-object", priority |-> 10, constraints |-> [produces |-> <<"direct-target">>, requires |-> <<"target">>, disallow |-> [categories |-> <<"object", "direct-object">>]]]>>,
     <<"M3", [type |-> MODIFIER, tid |-> "M3", name |-> "Kodu", category |-> "object", priority |-> 10, constraints |-> [disallow |-> [categories |-> <<"object", "direct-object">>]]]>>,
     <<"M4", [type |-> MODIFIER, tid |-> "M4", name |-> "Tree", category |-> "object", priority |-> 10, constraints |-> [disallow |-> [categories |-> <<"object", "direct-object">>]]]>>,
     <<"M5", [type |-> MODIFIER, tid |-> "M5", name |-> "Apple", category |-> "object", priority |-> 10, constraints |-> [disallow |-> [categories |-> <<"object", "direct-object">>]]]>>,
     <<"M6", [type |-> MODIFIER, tid |-> "M6", name |-> "quickly", category |-> "speed", priority |-> 10, constraints |-> [disallow |-> [tiles |-> <<"M7">>], handling |-> ("max-count" :> 3)]]>>,
     <<"M7", [type |-> MODIFIER, tid |-> "M7", name |-> "slowly", category |-> "speed", priority |-> 10, constraints |-> [disallow |-> [tiles |-> <<"M6">>], handling |-> ("max-count" :> 3)]]>>,
     <<"M8", [type |-> MODIFIER, tid |-> "M8", name |-> "toward", category |-> "direction", priority |-> 10, constraints |-> [requires |-> <<"target">>, disallow |-> [tiles |-> <<"M1">>, categories |-> <<"direction">>]]]>>,
     <<"M9", [type |-> MODIFIER, tid |-> "M9", name |-> "away", category |-> "direction", priority |-> 10, constraints |-> [requires |-> <<"target">>, disallow |-> [tiles |-> <<"M1">>, categories |-> <<"direction">>]]]>>,
     <<"M10", [type |-> MODIFIER, tid |-> "M10", name |-> "avoid", category |-> "direction", priority |-> 20, constraints |-> [requires |-> <<"target">>, disallow |-> [tiles |-> <<"M1">>, categories |-> <<"direction">>]]]>>,
     <<"M11", [type |-> MODIFIER, tid |-> "M11", name |-> "page 1", category |-> "page", priority |-> 10, constraints |-> [handling |-> [terminal |-> TRUE]]]>>,
     <<"M12", [type |-> MODIFIER, tid |-> "M12", name |-> "page 2", category |-> "page", priority |-> 10, constraints |-> [handling |-> [terminal |-> TRUE]]]>>,
     <<"M13", [type |-> MODIFIER, tid |-> "M13", name |-> "page 3", category |-> "page", priority |-> 10, constraints |-> [handling |-> [terminal |-> TRUE]]]>>,
     <<"M14", [type |-> MODIFIER, tid |-> "M14", name |-> "page 4", category |-> "page", priority |-> 10, constraints |-> [handling |-> [terminal |-> TRUE]]]>>,
     <<"M15", [type |-> MODIFIER, tid |-> "M15", name |-> "page 5", category |-> "page", priority |-> 10, constraints |-> [handling |-> [terminal |-> TRUE]]]>>,
     <<"M16", [type |-> MODIFIER, tid |-> "M16", name |-> "none", category |-> "expression", priority |-> 10, constraints |-> [disallow |-> [categories |-> <<"expression">>]]]>>,
     <<"M17", [type |-> MODIFIER, tid |-> "M17", name |-> "happy", category |-> "expression", priority |-> 10, constraints |-> [disallow |-> [categories |-> <<"expression">>]]]>>,
     <<"M18", [type |-> MODIFIER, tid |-> "M18", name |-> "angry", category |-> "expression", priority |-> 10, constraints |-> [disallow |-> [categories |-> <<"expression">>]]]>>,
     <<"M19", [type |-> MODIFIER, tid |-> "M19", name |-> "heart", category |-> "expression", priority |-> 10, constraints |-> [disallow |-> [categories |-> <<"expression">>]]]>>,
     <<"M20", [type |-> MODIFIER, tid |-> "M20", name |-> "sad", category |-> "expression", priority |-> 10, constraints |-> [disallow |-> [categories |-> <<"expression">>]]]>> >>

(* Object.keys of an object literal: the keys in order of first insertion. *)
RECURSIVE Object_keys(_)
Object_keys(lit) ==
  IF lit = <<>> THEN <<>>
  ELSE LET front == Object_keys(SubSeq(lit, 1, Len(lit) - 1))
           k == lit[Len(lit)][1]
       IN IF \E i \in 1..Len(front) : front[i] = k THEN front
          ELSE Append(front, k)

(* The object an object literal evaluates to: a repeated key keeps the value
   of its last occurrence. *)
ObjectOf(lit) ==
  [k \in {lit[i][1] : i \in 1..Len(lit)} |->
     lit[CHOOSE i \in 1..Len(lit) :
           /\ lit[i][1] = k
           /\ \A j \in (i+1)..Len(lit) : lit[j][1] # k][2]]

tiles ==
  [sensors   |-> ObjectOf(tiles_sensors_literal),
   filters   |-> ObjectOf(tiles_filters_literal),
   actuators |-> ObjectOf(tiles_actuators_literal),
   modifiers |-> ObjectOf(tiles_modifiers_literal)]

(* tiles.<partition>[id]: undefined when the partition has no such key. *)
Lookup(partition, id) ==
  IF id \in DOMAIN partition THEN id ELSE Undefined

(* ------------------------- constraint merge ---------------------------- *)

mkConstraints ==
  [provides |-> <<>>,
   requires |-> <<>>,
   allow    |-> [tiles |-> <<>>, categories |-> <<>>],
   disallow |-> [tiles |-> <<>>, categories |-> <<>>],
   handling |-> EmptyObj]

(* (o.k || []) *)
OrEmpty(o, k) == IF Has(o, k) THEN o[k] ELSE <<>>

mergeConstraints(dst, src) ==
  IF Has(src, "null") THEN dst
  ELSE
    [provides |-> dst.provides \o OrEmpty(src, "provides"),
     requires |-> dst.requires \o OrEmpty(src, "requires"),
     allow    |->
       IF Has(src, "allow")
       THEN [tiles      |-> dst.allow.tiles \o OrEmpty(src.allow, "tiles"),
             categories |-> dst.allow.categories \o OrEmpty(src.allow, "categories")]
       ELSE dst.allow,
     disallow |->
       IF Has(src, "disallow")
       THEN [tiles      |-> dst.disallow.tiles \o OrEmpty(src.disallow, "tiles"),
             categories |-> dst.disallow.categories \o OrEmpty(src.disallow, "categories")]
       ELSE dst.disallow,
     handling |->
       IF Has(src, "handling")
       THEN [key \in DOMAIN dst.handling \cup DOMAIN src.handling |->
               IF key \in DOMAIN src.handling THEN src.handling[key]
               ELSE dst.handling[key]]
       ELSE dst.handling]

(* tile.constraints of a catalog entry; Null when the entry has none. *)
ConstraintsOf(partition, ref) ==
  IF Has(partition[ref], "constraints") THEN partition[ref].constraints ELSE Null

(* rule.<anchor> ? rule.<anchor>.constraints : null *)
AnchorConstraints(partition, ref) ==
  IF ref = Undefined THEN Null ELSE ConstraintsOf(partition, ref)

(* -------------------------- suggestion engine -------------------------- *)

(* a.weight || 100 *)
WeightOf(tile) ==
  IF Has(tile, "weight") /\ tile.weight # 0 THEN tile.weight ELSE 100

(* !tile.hidden *)
NotHidden(tile) == ~(Has(tile, "hidden") /\ tile.hidden)

(* Array.prototype.sort with the comparator wa - wb: a stable insertion of
   each element after every element whose weight is not greater. *)
RECURSIVE SortByWeight(_, _)
SortByWeight(partition, refs) ==
  IF refs = <<>> THEN <<>>
  ELSE LET front == SortByWeight(partition, SubSeq(refs, 1, Len(refs) - 1))
           x == refs[Len(refs)]
           keep == {i \in 1..Len(front) :
                      WeightOf(partition[front[i]]) - WeightOf(partition[x]) <= 0}
           n == Cardinality(keep)
       IN SubSeq(front, 1, n) \o <<x>> \o SubSeq(front, n + 1, Len(front))

(* Object.keys(partition).map(id => partition[id]).filter(!hidden).sort(...) *)
SortedVisible(partition, keys) ==
  SortByWeight(partition,
               SelectSeq(keys, LAMBDA id : NotHidden(partition[id])))

(* Object.keys(tiles.<partition>) *)
tileKeys ==
  [sensors   |-> Object_keys(tiles_sensors_literal),
   filters   |-> Object_keys(tiles_filters_literal),
   actuators |-> Object_keys(tiles_actuators_literal),
   modifiers |-> Object_keys(tiles_modifiers_literal)]

(* What a call yields when it dereferences undefined and throws. *)
TypeError == <<"TypeError">>

(* last.constraints && last.constraints.handling
   && last.constraints.handling["terminal"] *)
IsTerminal(tile) ==
  /\ Has(tile, "constraints")
  /\ Has(tile.constraints, "handling")
  /\ Has(tile.constraints.handling, "terminal")
  /\ tile.constraints.handling["terminal"] = TRUE

(* The first index elements of a chain, as the loop pushes them: positions
   past the end of the chain read as undefined. *)
CollectExisting(chain, index) ==
  [i \in 1..index |-> IF i <= Len(chain) THEN chain[i] ELSE Undefined]

(* for (i < existing.length) mergeConstraints(constraints, existing[i].constraints) *)
RECURSIVE MergeExisting(_, _, _)
MergeExisting(c, partition, existing) ==
  IF existing = <<>> THEN c
  ELSE MergeExisting(mergeConstraints(c, ConstraintsOf(partition, Head(existing))),
                     partition, Tail(existing))



(* The built-up constraints of the filter chain: a new accumulator merged
   with the sensor's constraints, then with those of the existing filters. *)
FilterConstraints(r, existing) ==
  MergeExisting(
    mergeConstraints(mkConstraints, AnchorConstraints(tiles.sensors, r.sensor)),
    tiles.filters, existing)

(* The built-up constraints of the modifier chain with the sensor merged
   before the actuator. *)
ModifierConstraints_sensorFirst(r, existing) ==
  MergeExisting(
    mergeConstraints(
      mergeConstraints(mkConstraints,
                       AnchorConstraints(tiles.sensors, r.sensor)),
      AnchorConstraints(tiles.actuators, r.actuator)),
    tiles.modifiers, existing)

(* The built-up constraints of the modifier chain: a new accumulator merged
   with the actuator's constraints, then the sensor's, then those of the
   existing modifiers. *)
ModifierConstraints(r, existing) ==
  MergeExisting(
    mergeConstraints(
      mergeConstraints(mkConstraints,
                       AnchorConstraints(tiles.actuators, r.actuator)),
      AnchorConstraints(tiles.sensors, r.sensor)),
    tiles.modifiers, existing)

(* getCompatibleSet without the disallow filter. *)
getCompatibleSet_withoutDisallow(partition, all, c) ==
  LET RequiresMet(ref) ==
        LET tile == partition[ref] IN
        IF ~Has(tile, "constraints") THEN TRUE
        ELSE IF ~Has(tile.constraints, "requires") THEN TRUE
        ELSE \E i \in 1..Len(tile.constraints.requires) :
               Some(c.provides, LAMBDA pro : pro = tile.constraints.requires[i])
      Category(ref) ==
        IF Has(partition[ref], "category") THEN partition[ref].category ELSE Undefined
      Allowed(ref) ==
        \/ Some(c.allow.categories, LAMBDA cat : cat = Category(ref))
        \/ Some(c.allow.tiles, LAMBDA t : t = partition[ref].tid)
  IN SelectSeq(SelectSeq(all, RequiresMet), Allowed)

(* getCompatibleSet with the disallow filter looking at categories only. *)
getCompatibleSet_categoriesOnly(partition, all, c) ==
  LET RequiresMet(ref) ==
        LET tile == partition[ref] IN
        IF ~Has(tile, "constraints") THEN TRUE
        ELSE IF ~Has(tile.constraints, "requires") THEN TRUE
        ELSE \E i \in 1..Len(tile.constraints.requires) :
               Some(c.provides, LAMBDA pro : pro = tile.constraints.requires[i])
      Category(ref) ==
        IF Has(partition[ref], "category") THEN partition[ref].category ELSE Undefined
      Allowed(ref) ==
        \/ Some(c.allow.categories, LAMBDA cat : cat = Category(ref))
        \/ Some(c.allow.tiles, LAMBDA t : t = partition[ref].tid)
      NotDisallowed(ref) ==
        ~Some(c.disallow.categories, LAMBDA cat : cat = Category(ref))
  IN SelectSeq(SelectSeq(SelectSeq(all, RequiresMet), Allowed), NotDisallowed)

(* getCompatibleSet without the allow filter. *)
getCompatibleSet_withoutAllow(partition, all, c) ==
  LET RequiresMet(ref) ==
        LET tile == partition[ref] IN
        IF ~Has(tile, "constraints") THEN TRUE
        ELSE IF ~Has(tile.constraints, "requires") THEN TRUE
        ELSE \E i \in 1..Len(tile.constraints.requires) :
               Some(c.provides, LAMBDA pro : pro = tile.constraints.requires[i])
      Category(ref) ==
        IF Has(partition[ref], "category") THEN partition[ref].category ELSE Undefined
      NotDisallowed(ref) ==
        /\ ~Some(c.disallow.categories, LAMBDA cat : cat = Category(ref))
        /\ ~Some(c.disallow.tiles, LAMBDA t : t = partition[ref].tid)
  IN SelectSeq(SelectSeq(all, RequiresMet), NotDisallowed)

getCompatibleSet(partition, all, c) ==
  LET RequiresMet(ref) ==
        LET tile == partition[ref] IN
        IF ~Has(tile, "constraints") THEN TRUE
        ELSE IF ~Has(tile.constraints, "requires") THEN TRUE
        ELSE \E i \in 1..Len(tile.constraints.requires) :
               Some(c.provides, LAMBDA pro : pro = tile.constraints.requires[i])
      Category(ref) ==
        IF Has(partition[ref], "category") THEN partition[ref].category ELSE Undefined
      Allowed(ref) ==
        \/ Some(c.allow.categories, LAMBDA cat : cat = Category(ref))
        \/ Some(c.allow.tiles, LAMBDA t : t = partition[ref].tid)
      NotDisallowed(ref) ==
        /\ ~Some(c.disallow.categories, LAMBDA cat : cat = Category(ref))
        /\ ~Some(c.disallow.tiles, LAMBDA t : t = partition[ref].tid)
  IN SelectSeq(SelectSeq(SelectSeq(all, RequiresMet), Allowed), NotDisallowed)

(* The non-hidden tiles of each partition in sort order: the value every
   suggestion call starts from, which depends on the catalog alone. *)
allVisible ==
  [sensors   |-> SortedVisible(tiles.sensors, tileKeys.sensors),
   filters   |-> SortedVisible(tiles.filters, tileKeys.filters),
   actuators |-> SortedVisible(tiles.actuators, tileKeys.actuators),
   modifiers |-> SortedVisible(tiles.modifiers, tileKeys.modifiers)]

(* getSensorSuggestions without the filter on hidden. *)
getSensorSuggestions_withHidden(r) ==
  SortByWeight(tiles.sensors, tileKeys.sensors)

getSensorSuggestions(r) == allVisible.sensors

getActuatorSuggestions(r) == allVisible.actuators


(* getFilterSuggestions leaving out a tile of which the chain before index
   already holds handling["max-count"] copies. *)
getFilterSuggestions_maxCount(r, index) ==
  LET all == allVisible.filters
      existing == CollectExisting(r.filters, index)
      constraints ==
        MergeExisting(
          mergeConstraints(mkConstraints, AnchorConstraints(tiles.sensors, r.sensor)),
          tiles.filters, existing)
      Copies(ref) == Cardinality({i \in 1..Len(existing) : existing[i] = ref})
      UnderMaxCount(ref) ==
        LET tile == tiles.filters[ref] IN
        IF /\ Has(tile, "constraints")
           /\ Has(tile.constraints, "handling")
           /\ Has(tile.constraints.handling, "max-count")
        THEN Copies(ref) < tile.constraints.handling["max-count"]
        ELSE TRUE
  IN IF Len(existing) > 0 /\ existing[Len(existing)] = Undefined THEN TypeError
     ELSE IF Len(existing) > 0 /\ IsTerminal(tiles.filters[existing[Len(existing)]])
     THEN <<>>
     ELSE IF \E i \in 1..Len(existing) : existing[i] = Undefined THEN TypeError
     ELSE SelectSeq(getCompatibleSet(tiles.filters, all, constraints), UnderMaxCount)

(* getFilterSuggestions collecting the whole chain instead of the tiles
   before index. *)
getFilterSuggestions_wholeChain(r, index) ==
  LET all == allVisible.filters
      existing == CollectExisting(r.filters, Len(r.filters))
      constraints ==
        MergeExisting(
          mergeConstraints(mkConstraints, AnchorConstraints(tiles.sensors, r.sensor)),
          tiles.filters, existing)
  IN IF Len(existing) > 0 /\ existing[Len(existing)] = Undefined THEN TypeError
     ELSE IF Len(existing) > 0 /\ IsTerminal(tiles.filters[existing[Len(existing)]])
     THEN <<>>
     ELSE IF \E i \in 1..Len(existing) : existing[i] = Undefined THEN TypeError
     ELSE getCompatibleSet(tiles.filters, all, constraints)

(* getFilterSuggestions merging the constraints of the sensor alone. *)
getFilterSuggestions_sensorOnly(r, index) ==
  LET all == allVisible.filters
      existing == CollectExisting(r.filters, index)
      constraints ==
        mergeConstraints(mkConstraints, AnchorConstraints(tiles.sensors, r.sensor))
  IN IF Len(existing) > 0 /\ existing[Len(existing)] = Undefined THEN TypeError
     ELSE IF Len(existing) > 0 /\ IsTerminal(tiles.filters[existing[Len(existing)]])
     THEN <<>>
     ELSE getCompatibleSet(tiles.filters, all, constraints)

getFilterSuggestions(r, index) ==
  LET all == allVisible.filters
      existing == CollectExisting(r.filters, index)
      constraints == FilterConstraints(r, existing)
  IN IF Len(existing) > 0 /\ existing[Len(existing)] = Undefined THEN TypeError
     ELSE IF Len(existing) > 0 /\ IsTerminal(tiles.filters[existing[Len(existing)]])
     THEN <<>>
     ELSE IF \E i \in 1..Len(existing) : existing[i] = Undefined THEN TypeError
     ELSE getCompatibleSet(tiles.filters, all, constraints)

(* getModifierSuggestions without the return on a terminal tile. *)
getModifierSuggestions_noTerminal(r, index) ==
  LET all == allVisible.modifiers
      existing == CollectExisting(r.modifiers, index)
      constraints ==
        MergeExisting(
          mergeConstraints(
            mergeConstraints(mkConstraints,
                             AnchorConstraints(tiles.actuators, r.actuator)),
            AnchorConstraints(tiles.sensors, r.sensor)),
          tiles.modifiers, existing)
  IN IF \E i \in 1..Len(existing) : existing[i] = Undefined THEN TypeError
     ELSE getCompatibleSet(tiles.modifiers, all, constraints)

getModifierSuggestions(r, index) ==
  LET all == allVisible.modifiers
      existing == CollectExisting(r.modifiers, index)
      constraints == ModifierConstraints(r, existing)
  IN IF Len(existing) > 0 /\ existing[Len(existing)] = Undefined THEN TypeError
     ELSE IF Len(existing) > 0 /\ IsTerminal(tiles.modifiers[existing[Len(existing)]])
     THEN <<>>
     ELSE IF \E i \in 1..Len(existing) : existing[i] = Undefined THEN TypeError
     ELSE getCompatibleSet(tiles.modifiers, all, constraints)


(* ensureValid dropping only the last dependent tile of a missing anchor. *)
ensureValid_dropsLast(r) ==
  [r EXCEPT
     !.filters   = IF r.sensor = Undefined /\ Len(@) > 0
                   THEN SubSeq(@, 1, Len(@) - 1) ELSE @,
     !.modifiers = IF r.actuator = Undefined /\ Len(@) > 0
                   THEN SubSeq(@, 1, Len(@) - 1) ELSE @]

(* ensureValid without the repair of the modifiers. *)
ensureValid_filtersOnly(r) ==
  [r EXCEPT !.filters = IF r.sensor = Undefined THEN <<>> ELSE @]

ensureValid(r) ==
  [r EXCEPT !.filters   = IF r.sensor = Undefined THEN <<>> ELSE @,
            !.modifiers = IF r.actuator = Undefined THEN <<>> ELSE @]

(* --------------------------- RuleDefn ---------------------------------- *)

(* new RuleDefn(): sensor and actuator are left unset. *)
NewRuleDefn ==
  [condition |-> RuleCondition.DEFAULT,
   sensor    |-> Undefined,
   filters   |-> <<>>,
   actuator  |-> Undefined,
   modifiers |-> <<>>]

RuleDefn_isEmpty(r) == r.sensor = Undefined /\ r.actuator = Undefined

(* One key of the object built by toObj, kept unless the value is falsy
   (undefined or the empty string). *)
KeepTruthy(k, v) == IF v = Undefined \/ v = "" THEN EmptyObj ELSE k :> v

(* One array-valued key of the object built by toObj, kept unless empty. *)
KeepNonEmpty(k, v) == IF Len(v) = 0 THEN EmptyObj ELSE k :> v

(* toObj without the deletion of empty F and M. *)
RuleDefn_toObj_keepsEmptyLists(r) ==
  LET C == r.condition
      S == IF r.sensor # Undefined THEN tiles.sensors[r.sensor].tid ELSE Undefined
      A == IF r.actuator # Undefined THEN tiles.actuators[r.actuator].tid ELSE Undefined
      F == Map(r.filters, LAMBDA elem : tiles.filters[elem].tid)
      M == Map(r.modifiers, LAMBDA elem : tiles.modifiers[elem].tid)
  IN KeepTruthy("C", C) @@ KeepTruthy("S", S) @@ KeepTruthy("A", A)
       @@ ("F" :> F) @@ ("M" :> M)

RuleDefn_toObj(r) ==
  LET C == r.condition
      S == IF r.sensor # Undefined THEN tiles.sensors[r.sensor].tid ELSE Undefined
      A == IF r.actuator # Undefined THEN tiles.actuators[r.actuator].tid ELSE Undefined
      F == Map(r.filters, LAMBDA elem : tiles.filters[elem].tid)
      M == Map(r.modifiers, LAMBDA elem : tiles.modifiers[elem].tid)
  IN KeepTruthy("C", C) @@ KeepTruthy("S", S) @@ KeepTruthy("A", A)
       @@ KeepNonEmpty("F", F) @@ KeepNonEmpty("M", M)

(* obj is an object whose values, where present, have the expected types. *)
RuleDefn_FromObj(o) ==
  [condition |-> IF Has(o, "C") THEN o["C"] ELSE NewRuleDefn.condition,
   sensor    |-> IF Has(o, "S") THEN Lookup(tiles.sensors, o["S"]) ELSE Undefined,
   actuator  |-> IF Has(o, "A") THEN Lookup(tiles.actuators, o["A"]) ELSE Undefined,
   filters   |-> IF Has(o, "F")
                 THEN Map(o["F"], LAMBDA elem : Lookup(tiles.filters, elem))
                 ELSE NewRuleDefn.filters,
   modifiers |-> IF Has(o, "M")
                 THEN Map(o["M"], LAMBDA elem : Lookup(tiles.modifiers, elem))
                 ELSE NewRuleDefn.modifiers]

RuleDefn_clone(r) ==
  [condition |-> r.condition,
   sensor    |-> r.sensor,
   actuator  |-> r.actuator,
   filters   |-> SubSeq(r.filters, 1, Len(r.filters)),
   modifiers |-> SubSeq(r.modifiers, 1, Len(r.modifiers))]

(* --------------------------- PageDefn ---------------------------------- *)

NewPageDefn == [rules |-> <<>>]

PageDefn_clone(page) == [rules |-> Map(page.rules, RuleDefn_clone)]


(* trim removing every empty rule of the page. *)
PageDefn_trim_everyEmpty(page) ==
  [rules |-> SelectSeq(page.rules, LAMBDA r : ~RuleDefn_isEmpty(r))]

RECURSIVE PageDefn_trim(_)
PageDefn_trim(page) ==
  IF Len(page.rules) # 0 /\ RuleDefn_isEmpty(page.rules[Len(page.rules)])
  THEN PageDefn_trim([rules |-> SubSeq(page.rules, 1, Len(page.rules) - 1)])
  ELSE page


(* deleteRuleAt without the test index >= 0: splice(-1, 1) removes the last
   rule. *)
PageDefn_deleteRuleAt_noLowerBound(page, index) ==
  IF index < Len(page.rules)
  THEN IF index < 0
       THEN [rules |-> SubSeq(page.rules, 1, Len(page.rules) - 1)]
       ELSE [rules |-> SubSeq(page.rules, 1, index)
                         \o SubSeq(page.rules, index + 2, Len(page.rules))]
  ELSE page

(* index counts from 0; splice(index, 1) removes the rule at that position. *)
PageDefn_deleteRuleAt(page, index) ==
  IF index >= 0 /\ index < Len(page.rules)
  THEN [rules |-> SubSeq(page.rules, 1, index)
                    \o SubSeq(page.rules, index + 2, Len(page.rules))]
  ELSE page

PageDefn_toObj(page) ==
  KeepNonEmpty("R", Map(page.rules, RuleDefn_toObj))

PageDefn_FromObj(o) ==
  [rules |-> IF Has(o, "R") THEN Map(o["R"], RuleDefn_FromObj) ELSE NewPageDefn.rules]

(* --------------------------- BrainDefn --------------------------------- *)

NewBrainDefn == [pages |-> Map(<<0, 1, 2, 3, 4>>, LAMBDA n : NewPageDefn)]

BrainDefn_clone(b) == [pages |-> Map(b.pages, PageDefn_clone)]

BrainDefn_trim(b) == [pages |-> Map(b.pages, PageDefn_trim)]

BrainDefn_toObj(b) == [P |-> Map(b.pages, PageDefn_toObj)]

BrainDefn_FromObj(o) ==
  [pages |-> IF Has(o, "P") THEN Map(o["P"], PageDefn_FromObj) ELSE NewBrainDefn.pages]

(* ------------------------------ inputs --------------------------------- *)

(* Values of key C in a rule record: the default, another enumerated
   condition, and the empty string. *)
ConditionInputs == {RuleCondition.DEFAULT, RuleCondition.HIGH, ""}

(* Tile identifiers used in rule records, one or two of each behaviour the
   catalog has: a sensor without constraints, See, Timer; subject, distance
   (both), timespan and expression filters; Move, Switch page, Express; a
   direct-object, an object, a speed, a direction, a page and an expression
   modifier. *)
SensorInputs == {"S1", "S2", "S7"}
FilterInputs == {"F1", "F4", "F5", "F8", "F10"}
ActuatorInputs == {"A1", "A2", "A3"}
ModifierInputs == {"M1", "M3", "M6", "M8", "M11", "M16"}

(* The sequences over S of length at most n. *)
SeqsUpTo(S, n) == UNION {[1..k -> S] : k \in 0..n}

(* A rule record: a key is present iff its value is given. *)
MkRuleRecord(c, s, a, f, m) ==
  (IF c = Undefined THEN EmptyObj ELSE "C" :> c)
    @@ (IF s = Undefined THEN EmptyObj ELSE "S" :> s)
    @@ (IF a = Undefined THEN EmptyObj ELSE "A" :> a)
    @@ KeepNonEmpty("F", f) @@ KeepNonEmpty("M", m)

(* The rule records that are decoded: any combination of keys, with at most
   MaxTiles filters and modifiers together. *)
RuleRecords ==
  UNION {{MkRuleRecord(c, s, a, f, m) :
            c \in {RuleCondition.HIGH, Undefined},
            s \in SensorInputs \cup {Undefined},
            a \in ActuatorInputs \cup {Undefined},
            m \in SeqsUpTo(ModifierInputs, MaxTiles - Len(f))} :
         f \in SeqsUpTo(FilterInputs, MaxTiles)}

(* ------------------------ the rule under edit -------------------------- *)

(* A rule just decoded from a rule record, beside a newly constructed
   brain. *)
Init ==
  /\ obj \in RuleRecords
  /\ rule = RuleDefn_FromObj(obj)
  /\ op = "RuleDefn.FromObj"
  /\ out = <<>>
  /\ idx = 0
  /\ brain = NewBrainDefn
  /\ AuxInit

EnsureValid ==
  /\ rule' = ensureValid(rule)
  /\ op' = "ensureValid"
  /\ out' = <<>>
  /\ idx' = 0
  /\ UNCHANGED <<brain, obj>>
  /\ UNCHANGED aux

SuggestSensors ==
  /\ out' = getSensorSuggestions(rule)
  /\ op' = "getSensorSuggestions"
  /\ idx' = 0
  /\ UNCHANGED <<rule, brain, obj>>
  /\ UNCHANGED aux

SuggestActuators ==
  /\ out' = getActuatorSuggestions(rule)
  /\ op' = "getActuatorSuggestions"
  /\ idx' = 0
  /\ UNCHANGED <<rule, brain, obj>>
  /\ UNCHANGED aux

SuggestFilters ==
  \E index \in 0..Len(rule.filters) :
    /\ out' = getFilterSuggestions(rule, index)
    /\ op' = "getFilterSuggestions"
    /\ idx' = index
    /\ UNCHANGED <<rule, brain, obj>>
    /\ UNCHANGED aux

SuggestModifiers ==
  \E index \in 0..Len(rule.modifiers) :
    /\ out' = getModifierSuggestions(rule, index)
    /\ op' = "getModifierSuggestions"
    /\ idx' = index
    /\ UNCHANGED <<rule, brain, obj>>
    /\ UNCHANGED aux

Next ==
  \/ EnsureValid
  \/ SuggestSensors
  \/ SuggestActuators
  \/ SuggestFilters
  \/ SuggestModifiers

Spec == Init /\ [][Next]_vars

(* ------------------------- the brain and its codec --------------------- *)

(* The rule records that appear in brain records: an empty record, a rule
   with a sensor and two filters, a rule whose condition is the empty
   string, a rule with both anchors and a terminal modifier, a rule with a
   filter but no sensor, and a rule with both anchors and no chain. *)
RuleRecordInputs ==
  {EmptyObj,
   [C |-> RuleCondition.HIGH, S |-> "S2", F |-> <<"F4", "F1">>],
   [C |-> "", A |-> "A1", M |-> <<"M6">>],
   [S |-> "S1", A |-> "A2", M |-> <<"M11">>],
   [C |-> RuleCondition.DEFAULT, F |-> <<"F1">>],
   [C |-> RuleCondition.HIGH_TO_LOW, S |-> "S7", A |-> "A3"]}

(* The lengths of key P in a brain record. *)
PageCountInputs == {0, 1, 5, 6}

(* The sequences of n page records that hold at most r rule records. *)
RECURSIVE PageRecordSeqs(_, _)
PageRecordSeqs(n, r) ==
  IF n = 0 THEN {<<>>}
  ELSE UNION {{<<KeepNonEmpty("R", rs)>> \o rest :
                 rs \in [1..k -> RuleRecordInputs],
                 rest \in PageRecordSeqs(n - 1, r - k)} :
              k \in 0..r}

(* The brain records that are decoded: without key P, or with key P of one
   of the lengths above and at most MaxRules rule records. *)
BrainRecords ==
  {EmptyObj} \cup
  UNION {{[P |-> ps] : ps \in PageRecordSeqs(n, MaxRules)} : n \in PageCountInputs}

(* A newly constructed brain and a brain record about to be decoded. *)
InitCodec ==
  /\ obj \in BrainRecords
  /\ brain = NewBrainDefn
  /\ op = "new"
  /\ rule = NewRuleDefn
  /\ out = <<>>
  /\ idx = 0
  /\ AuxInit

DecodeBrain ==
  /\ brain' = BrainDefn_FromObj(obj)
  /\ op' = "BrainDefn.FromObj"
  /\ UNCHANGED <<obj, rule, out, idx>>
  /\ UNCHANGED aux

EncodeBrain ==
  /\ obj' = BrainDefn_toObj(brain)
  /\ op' = "BrainDefn.toObj"
  /\ UNCHANGED <<brain, rule, out, idx>>
  /\ UNCHANGED aux

CloneBrain ==
  /\ brain' = BrainDefn_clone(brain)
  /\ op' = "BrainDefn.clone"
  /\ UNCHANGED <<obj, rule, out, idx>>
  /\ UNCHANGED aux

TrimBrain ==
  /\ brain' = BrainDefn_trim(brain)
  /\ op' = "BrainDefn.trim"
  /\ UNCHANGED <<obj, rule, out, idx>>
  /\ UNCHANGED aux

NextCodec ==
  \/ DecodeBrain
  \/ EncodeBrain
  \/ CloneBrain
  \/ TrimBrain

SpecCodec == InitCodec /\ [][NextCodec]_vars


(* --------------------------- pages of rules ---------------------------- *)

(* Largest number of rule records in the first page record. *)
MaxPageRules == 4

(* The rule records of the pages that are trimmed and deleted from: an empty
   record, a rule with a filter and neither sensor nor actuator, a rule with
   a sensor, and a rule with an actuator. *)
PageRuleInputs ==
  {EmptyObj,
   [F |-> <<"F1">>],
   [S |-> "S2", F |-> <<"F4">>],
   [C |-> RuleCondition.LOW, A |-> "A1"]}

(* The rule records of the second page record. *)
SecondPageInputs ==
  {<<>>, <<[S |-> "S2", F |-> <<"F4">>], EmptyObj>>}

(* Brain records of 5 page records, the first with at most MaxPageRules rule
   records, the last three empty. *)
PageBrainRecords ==
  {[P |-> <<KeepNonEmpty("R", rs), KeepNonEmpty("R", second),
            EmptyObj, EmptyObj, EmptyObj>>] :
     rs \in SeqsUpTo(PageRuleInputs, MaxPageRules),
     second \in SecondPageInputs}

(* A brain just decoded from a brain record. *)
InitPage ==
  /\ obj \in PageBrainRecords
  /\ brain = BrainDefn_FromObj(obj)
  /\ op = "BrainDefn.FromObj"
  /\ rule = NewRuleDefn
  /\ out = <<>>
  /\ idx = 0
  /\ AuxInit

DeleteRule ==
  \E p \in 1..Len(brain.pages) :
    \E index \in (-1)..(Len(brain.pages[p].rules) + 1) :
      /\ brain' = [brain EXCEPT !.pages[p] = PageDefn_deleteRuleAt(@, index)]
      /\ idx' = index
      /\ op' = "PageDefn.deleteRuleAt"
      /\ UNCHANGED <<obj, rule, out>>
      /\ UNCHANGED aux

NextPage ==
  \/ TrimBrain
  \/ DeleteRule

SpecPage == InitPage /\ [][NextPage]_vars


(* ------------------- records naming unknown tiles ---------------------- *)

(* Tile identifiers in rule records: for each partition one that is a key of
   the partition and one that is not ("F6" is tid.filter.me, for which
   tiles.filters has no entry; the others are not in the tid table). *)
SensorTids   == {"S2", "S9"}
ActuatorTids == {"A1", "A9"}
FilterTids   == {"F4", "F6"}
ModifierTids == {"M6", "M99"}

TidRuleRecords ==
  UNION {UNION {{MkRuleRecord(Undefined, s, a, f, m) :
                   s \in SensorTids \cup {Undefined},
                   a \in ActuatorTids \cup {Undefined}} :
                m \in SeqsUpTo(ModifierTids, MaxTiles - Len(f))} :
         f \in SeqsUpTo(FilterTids, MaxTiles)}

(* A newly constructed rule and a record to decode. *)
InitTid ==
  /\ obj \in TidRuleRecords
  /\ rule = NewRuleDefn
  /\ op = "new RuleDefn"
  /\ out = <<>>
  /\ idx = 0
  /\ brain = NewBrainDefn
  /\ AuxInit

DecodeRule ==
  /\ rule' = RuleDefn_FromObj(obj)
  /\ op' = "RuleDefn.FromObj"
  /\ UNCHANGED <<obj, out, idx, brain>>
  /\ UNCHANGED aux

NextTid ==
  \/ DecodeRule
  \/ EnsureValid

SpecTid == InitTid /\ [][NextTid]_vars


(* ------------------------- authoring a rule ---------------------------- *)

(* Largest number of filters and modifiers together in an authored rule. *)
MaxChain == 3

(* The tiles the author picks among the suggested ones: any tile of the
   catalog. *)
AuthorSensors   == DOMAIN tiles.sensors
AuthorActuators == DOMAIN tiles.actuators
AuthorFilters   == DOMAIN tiles.filters
AuthorModifiers == DOMAIN tiles.modifiers

(* The suggested tiles among a set of tiles; none when the call throws. *)
Picks(suggestions, among) ==
  IF suggestions = TypeError THEN {}
  ELSE {suggestions[i] : i \in 1..Len(suggestions)} \cap among

(* A newly constructed rule. *)
InitAuthor ==
  /\ rule = NewRuleDefn
  /\ obj = EmptyObj
  /\ op = "new RuleDefn"
  /\ out = <<>>
  /\ idx = 0
  /\ brain = NewBrainDefn
  /\ AuxInit

(* rule.sensor = a suggested sensor; swapped records that a chain was not
   empty when a sensor or actuator was replaced by another one. *)
SetSensor ==
  \E s \in Picks(getSensorSuggestions(rule), AuthorSensors) :
    /\ rule' = [rule EXCEPT !.sensor = s]
    /\ swapped' = (swapped \/ (/\ rule.sensor # Undefined
                               /\ rule.sensor # s
                               /\ Len(rule.filters) + Len(rule.modifiers) > 0))
    /\ op' = "rule.sensor ="
    /\ UNCHANGED <<out, idx, brain, obj, heap, orig, copy, side, edits>>

SetActuator ==
  \E a \in Picks(getActuatorSuggestions(rule), AuthorActuators) :
    /\ rule' = [rule EXCEPT !.actuator = a]
    /\ swapped' = (swapped \/ (/\ rule.actuator # Undefined
                               /\ rule.actuator # a
                               /\ Len(rule.filters) + Len(rule.modifiers) > 0))
    /\ op' = "rule.actuator ="
    /\ UNCHANGED <<out, idx, brain, obj, heap, orig, copy, side, edits>>

(* rule.filters.push(a filter suggested at the end of the chain) *)
AppendFilter ==
  /\ Len(rule.filters) + Len(rule.modifiers) < MaxChain
  /\ \E t \in Picks(getFilterSuggestions(rule, Len(rule.filters)), AuthorFilters) :
       rule' = [rule EXCEPT !.filters = Append(@, t)]
  /\ op' = "rule.filters.push"
  /\ UNCHANGED <<out, idx, brain, obj>>
  /\ UNCHANGED aux

AppendModifier ==
  /\ Len(rule.filters) + Len(rule.modifiers) < MaxChain
  /\ \E t \in Picks(getModifierSuggestions(rule, Len(rule.modifiers)), AuthorModifiers) :
       rule' = [rule EXCEPT !.modifiers = Append(@, t)]
  /\ op' = "rule.modifiers.push"
  /\ UNCHANGED <<out, idx, brain, obj>>
  /\ UNCHANGED aux

(* rule.sensor = undefined; Language.ensureValid(rule) *)
RemoveSensor ==
  /\ rule.sensor # Undefined
  /\ rule' = ensureValid([rule EXCEPT !.sensor = Undefined])
  /\ op' = "rule.sensor = undefined"
  /\ UNCHANGED <<out, idx, brain, obj>>
  /\ UNCHANGED aux

RemoveActuator ==
  /\ rule.actuator # Undefined
  /\ rule' = ensureValid([rule EXCEPT !.actuator = Undefined])
  /\ op' = "rule.actuator = undefined"
  /\ UNCHANGED <<out, idx, brain, obj>>
  /\ UNCHANGED aux

(* Setting and replacing anchors, appending suggested tiles, and removing an
   anchor followed by ensureValid. *)
NextAuthor ==
  \/ SetSensor
  \/ SetActuator
  \/ AppendFilter
  \/ AppendModifier
  \/ RemoveSensor
  \/ RemoveActuator

SpecAuthor == InitAuthor /\ [][NextAuthor]_vars

(* Setting and replacing anchors and appending suggested tiles only. *)
NextEdit ==
  \/ SetSensor
  \/ SetActuator
  \/ AppendFilter
  \/ AppendModifier

SpecEdit == InitAuthor /\ [][NextEdit]_vars

(* A rule with empty chains whose sensor and actuator, if any, stay. *)
InitAppend ==
  /\ \E s \in AuthorSensors \cup {Undefined}, a \in AuthorActuators \cup {Undefined} :
       rule = [NewRuleDefn EXCEPT !.sensor = s, !.actuator = a]
  /\ obj = EmptyObj
  /\ op = "new RuleDefn"
  /\ out = <<>>
  /\ idx = 0
  /\ brain = NewBrainDefn
  /\ AuxInit

NextAppend ==
  \/ AppendFilter
  \/ AppendModifier

SpecAppend == InitAppend /\ [][NextAppend]_vars


(* ------------------------- objects by reference ------------------------ *)

(* Largest number of mutations after a clone. *)
MaxEdits == 2

(* The heap is a sequence of objects and an address is a position in it. A
   rule object refers to its two arrays, a page object to its array of rule
   addresses, a brain object to its array of page addresses; the elements of
   a filter or modifier array are references to catalog tiles. *)
ArrayObj(items) == [kind |-> "Array", items |-> items]

(* new RuleDefn() *)
Heap_NewRuleDefn(h) ==
  [heap |-> h \o <<ArrayObj(<<>>), ArrayObj(<<>>),
                   [kind |-> "RuleDefn",
                    condition |-> NewRuleDefn.condition,
                    sensor    |-> NewRuleDefn.sensor,
                    actuator  |-> NewRuleDefn.actuator,
                    filters   |-> Len(h) + 1,
                    modifiers |-> Len(h) + 2]>>,
   addr |-> Len(h) + 3]

(* clone with rule.filters = this.filters, the array itself. *)
Heap_RuleDefn_clone_sharedFilters(h, a) ==
  [heap |-> h \o <<ArrayObj(h[h[a].modifiers].items),
                   [h[a] EXCEPT !.modifiers = Len(h) + 1]>>,
   addr |-> Len(h) + 2]

(* RuleDefn.clone: a new rule with the fields of this one and slices of its
   arrays (the two arrays of the constructor, replaced at once and referred
   to by nothing, are not kept on the heap). *)
Heap_RuleDefn_clone(h, a) ==
  [heap |-> h \o <<ArrayObj(h[h[a].filters].items),
                   ArrayObj(h[h[a].modifiers].items),
                   [h[a] EXCEPT !.filters = Len(h) + 1, !.modifiers = Len(h) + 2]>>,
   addr |-> Len(h) + 3]

(* this.rules.map(rule => rule.clone()) *)
RECURSIVE Heap_cloneRules(_, _)
Heap_cloneRules(h, addrs) ==
  IF addrs = <<>> THEN [heap |-> h, addrs |-> <<>>]
  ELSE LET first == Heap_RuleDefn_clone(h, Head(addrs))
           rest  == Heap_cloneRules(first.heap, Tail(addrs))
       IN [heap |-> rest.heap, addrs |-> <<first.addr>> \o rest.addrs]

Heap_PageDefn_clone(h, a) ==
  LET rules == Heap_cloneRules(h, h[h[a].rules].items)
  IN [heap |-> rules.heap \o <<ArrayObj(rules.addrs),
                               [kind |-> "PageDefn", rules |-> Len(rules.heap) + 1]>>,
      addr |-> Len(rules.heap) + 2]

(* this.pages.map(page => page.clone()) *)
RECURSIVE Heap_clonePages(_, _)
Heap_clonePages(h, addrs) ==
  IF addrs = <<>> THEN [heap |-> h, addrs |-> <<>>]
  ELSE LET first == Heap_PageDefn_clone(h, Head(addrs))
           rest  == Heap_clonePages(first.heap, Tail(addrs))
       IN [heap |-> rest.heap, addrs |-> <<first.addr>> \o rest.addrs]

Heap_BrainDefn_clone(h, a) ==
  LET pages == Heap_clonePages(h, h[h[a].pages].items)
  IN [heap |-> pages.heap \o <<ArrayObj(pages.addrs),
                               [kind |-> "BrainDefn", pages |-> Len(pages.heap) + 1]>>,
      addr |-> Len(pages.heap) + 2]

(* x.clone() for a rule, a page or a brain. *)
Heap_clone(h, a) ==
  IF h[a].kind = "RuleDefn" THEN Heap_RuleDefn_clone(h, a)
  ELSE IF h[a].kind = "PageDefn" THEN Heap_PageDefn_clone(h, a)
  ELSE Heap_BrainDefn_clone(h, a)

(* Language.ensureValid: the field is assigned a new empty array. *)
Heap_ensureValid(h, a) ==
  LET h1 == IF h[a].sensor = Undefined
            THEN [h EXCEPT ![a].filters = Len(h) + 1] \o <<ArrayObj(<<>>)>>
            ELSE h
  IN IF h1[a].actuator = Undefined
     THEN [h1 EXCEPT ![a].modifiers = Len(h1) + 1] \o <<ArrayObj(<<>>)>>
     ELSE h1

(* PageDefn.trim: pop the last rule while it is empty. *)
RECURSIVE Heap_PageDefn_trim(_, _)
Heap_PageDefn_trim(h, a) ==
  LET rules == h[h[a].rules].items
  IN IF Len(rules) > 0 /\ RuleDefn_isEmpty(h[rules[Len(rules)]])
     THEN Heap_PageDefn_trim(
            [h EXCEPT ![h[a].rules].items = SubSeq(rules, 1, Len(rules) - 1)], a)
     ELSE h

(* this.pages.map(page => page.trim()) *)
RECURSIVE Heap_trimPages(_, _)
Heap_trimPages(h, addrs) ==
  IF addrs = <<>> THEN h
  ELSE Heap_trimPages(Heap_PageDefn_trim(h, Head(addrs)), Tail(addrs))

Heap_BrainDefn_trim(h, a) == Heap_trimPages(h, h[h[a].pages].items)

(* PageDefn.deleteRuleAt: splice on the page's own array. *)
Heap_PageDefn_deleteRuleAt(h, a, index) ==
  LET rules == h[h[a].rules].items
  IN IF index >= 0 /\ index < Len(rules)
     THEN [h EXCEPT ![h[a].rules].items =
             SubSeq(rules, 1, index) \o SubSeq(rules, index + 2, Len(rules))]
     ELSE h

(* The objects of a decoded rule, page and brain. *)
Heap_RuleDefn(h, r) ==
  [heap |-> h \o <<ArrayObj(r.filters), ArrayObj(r.modifiers),
                   [kind |-> "RuleDefn",
                    condition |-> r.condition,
                    sensor    |-> r.sensor,
                    actuator  |-> r.actuator,
                    filters   |-> Len(h) + 1,
                    modifiers |-> Len(h) + 2]>>,
   addr |-> Len(h) + 3]

RECURSIVE Heap_rules(_, _)
Heap_rules(h, rules) ==
  IF rules = <<>> THEN [heap |-> h, addrs |-> <<>>]
  ELSE LET first == Heap_RuleDefn(h, Head(rules))
           rest  == Heap_rules(first.heap, Tail(rules))
       IN [heap |-> rest.heap, addrs |-> <<first.addr>> \o rest.addrs]

Heap_PageDefn(h, page) ==
  LET rules == Heap_rules(h, page.rules)
  IN [heap |-> rules.heap \o <<ArrayObj(rules.addrs),
                               [kind |-> "PageDefn", rules |-> Len(rules.heap) + 1]>>,
      addr |-> Len(rules.heap) + 2]

RECURSIVE Heap_pages(_, _)
Heap_pages(h, pages) ==
  IF pages = <<>> THEN [heap |-> h, addrs |-> <<>>]
  ELSE LET first == Heap_PageDefn(h, Head(pages))
           rest  == Heap_pages(first.heap, Tail(pages))
       IN [heap |-> rest.heap, addrs |-> <<first.addr>> \o rest.addrs]

Heap_BrainDefn(h, b) ==
  LET pages == Heap_pages(h, b.pages)
  IN [heap |-> pages.heap \o <<ArrayObj(pages.addrs),
                               [kind |-> "BrainDefn", pages |-> Len(pages.heap) + 1]>>,
      addr |-> Len(pages.heap) + 2]

(* The addresses reachable from a rule, a page or a brain: the object, its
   arrays, and what the elements of an array of rules or pages reach. *)
RECURSIVE Reach(_, _)
Reach(h, a) ==
  IF h[a].kind = "RuleDefn" THEN {a, h[a].filters, h[a].modifiers}
  ELSE LET arr == IF h[a].kind = "PageDefn" THEN h[a].rules ELSE h[a].pages
       IN {a, arr} \cup UNION {Reach(h, h[arr].items[i]) : i \in 1..Len(h[arr].items)}

RulesOf(h, a) == {b \in Reach(h, a) : h[b].kind = "RuleDefn"}
PagesOf(h, a) == {b \in Reach(h, a) : h[b].kind = "PageDefn"}

(* The brain records that are decoded and then cloned. *)
CloneInputs ==
  {[P |-> <<[R |-> <<[C |-> RuleCondition.LOW, S |-> "S2", F |-> <<"F4">>,
                       A |-> "A1", M |-> <<"M6">>],
                     EmptyObj>>],
            EmptyObj>>],
   [P |-> <<[R |-> <<[F |-> <<"F1">>, A |-> "A2", M |-> <<"M11">>]>>]>>]}

(* A decoded brain; orig is the brain, nothing is cloned yet. *)
InitClone ==
  /\ obj \in CloneInputs
  /\ brain = BrainDefn_FromObj(obj)
  /\ LET b == Heap_BrainDefn(<<>>, brain) IN heap = b.heap /\ orig = b.addr
  /\ copy = 0
  /\ side = "none"
  /\ edits = 0
  /\ swapped = FALSE
  /\ rule = NewRuleDefn
  /\ op = "BrainDefn.FromObj"
  /\ out = <<>>
  /\ idx = 0

(* copy = x.clone() for the brain, one of its pages or one of its rules;
   from now on orig is x. *)
Clone ==
  /\ copy = 0
  /\ \E x \in {orig} \cup PagesOf(heap, orig) \cup RulesOf(heap, orig) :
       LET c == Heap_clone(heap, x)
       IN heap' = c.heap /\ orig' = x /\ copy' = c.addr
  /\ side' = "none"
  /\ op' = "clone"
  /\ UNCHANGED <<edits, swapped, rule, out, idx, brain, obj>>

(* The object a mutation goes through. *)
Root(s) == IF s = "orig" THEN orig ELSE copy

(* A mutation of one side leaves everything but the heap as it is. *)
Edit(s, name) ==
  /\ side' = s
  /\ op' = name
  /\ edits' = edits + 1
  /\ UNCHANGED <<orig, copy, swapped, rule, out, idx, brain, obj>>

(* rule.condition = ..., rule.sensor = ..., rule.actuator = ... *)
AssignField ==
  /\ copy # 0 /\ edits < MaxEdits
  /\ \E s \in {"orig", "copy"} :
       \E a \in RulesOf(heap, Root(s)) :
         /\ \/ heap' = [heap EXCEPT ![a].condition = RuleCondition.HIGH]
            \/ heap' = [heap EXCEPT ![a].sensor = Undefined]
            \/ heap' = [heap EXCEPT ![a].actuator = "A3"]
         /\ Edit(s, "rule.field =")

(* rule.filters.push(tile), rule.modifiers.push(tile) *)
PushTile ==
  /\ copy # 0 /\ edits < MaxEdits
  /\ \E s \in {"orig", "copy"} :
       \E a \in RulesOf(heap, Root(s)) :
         /\ \/ heap' = [heap EXCEPT ![heap[a].filters].items = Append(@, "F2")]
            \/ heap' = [heap EXCEPT ![heap[a].modifiers].items = Append(@, "M8")]
         /\ Edit(s, "push")

(* rule.filters.pop(), rule.modifiers.pop() *)
PopTile ==
  /\ copy # 0 /\ edits < MaxEdits
  /\ \E s \in {"orig", "copy"} :
       \E a \in RulesOf(heap, Root(s)) :
         \E chain \in {heap[a].filters, heap[a].modifiers} :
           /\ heap[chain].items # <<>>
           /\ heap' = [heap EXCEPT ![chain].items = SubSeq(@, 1, Len(@) - 1)]
           /\ Edit(s, "pop")

EnsureValidRule ==
  /\ copy # 0 /\ edits < MaxEdits
  /\ \E s \in {"orig", "copy"} :
       \E a \in RulesOf(heap, Root(s)) :
         /\ heap' = Heap_ensureValid(heap, a)
         /\ Edit(s, "ensureValid")

(* page.rules.push(new RuleDefn()) *)
AddRule ==
  /\ copy # 0 /\ edits < MaxEdits
  /\ \E s \in {"orig", "copy"} :
       \E p \in PagesOf(heap, Root(s)) :
         /\ LET r == Heap_NewRuleDefn(heap)
            IN heap' = [r.heap EXCEPT ![heap[p].rules].items = Append(@, r.addr)]
         /\ Edit(s, "rules.push")

DeleteRuleOf ==
  /\ copy # 0 /\ edits < MaxEdits
  /\ \E s \in {"orig", "copy"} :
       \E p \in PagesOf(heap, Root(s)) :
         \E index \in 0..(Len(heap[heap[p].rules].items) - 1) :
           /\ heap' = Heap_PageDefn_deleteRuleAt(heap, p, index)
           /\ Edit(s, "PageDefn.deleteRuleAt")

(* page.trim() on a page, brain.trim() when the side is a brain. *)
TrimOf ==
  /\ copy # 0 /\ edits < MaxEdits
  /\ \E s \in {"orig", "copy"} :
       /\ \/ \E p \in PagesOf(heap, Root(s)) : heap' = Heap_PageDefn_trim(heap, p)
          \/ /\ heap[Root(s)].kind = "BrainDefn"
             /\ heap' = Heap_BrainDefn_trim(heap, Root(s))
       /\ Edit(s, "trim")

NextClone ==
  \/ Clone
  \/ AssignField
  \/ PushTile
  \/ PopTile
  \/ EnsureValidRule
  \/ AddRule
  \/ DeleteRuleOf
  \/ TrimOf

SpecClone == InitClone /\ [][NextClone]_vars

(* ============================ properties =============================== *)

(* The elements of a sequence. *)
Range(s) == {s[i] : i \in 1..Len(s)}

(* The position of a key in Object.keys of its partition. *)
DeclarationIndex(keys, k) == CHOOSE i \in 1..Len(keys) : keys[i] = k

(* The weight a tile sorts by: its weight, 100 when it has none. *)
SortWeight(tile) == IF "weight" \in DOMAIN tile THEN tile.weight ELSE 100

(* s lists its tiles by non-decreasing weight, tiles of equal weight in
   declaration order, and no tile twice. *)
InWeightOrder(partition, keys, s) ==
  \A i, j \in 1..Len(s) :
    i < j =>
      \/ SortWeight(partition[s[i]]) < SortWeight(partition[s[j]])
      \/ /\ SortWeight(partition[s[i]]) = SortWeight(partition[s[j]])
         /\ DeclarationIndex(keys, s[i]) < DeclarationIndex(keys, s[j])

(* The tiles of a partition that are not hidden. *)
Visible(partition) ==
  {k \in DOMAIN partition :
     ~("hidden" \in DOMAIN partition[k] /\ partition[k].hidden = TRUE)}

(* The tiles whose constraints count at position index of the filter chain
   (the sensor and the filters before index) and of the modifier chain (the
   actuator, the sensor and the modifiers before index), each as a pair of
   partition name and key. *)
FilterSources(r, index) ==
  (IF r.sensor = Undefined THEN {} ELSE {<<"sensors", r.sensor>>})
    \cup {<<"filters", r.filters[i]>> : i \in 1..index}

ModifierSources(r, index) ==
  (IF r.actuator = Undefined THEN {} ELSE {<<"actuators", r.actuator>>})
    \cup (IF r.sensor = Undefined THEN {} ELSE {<<"sensors", r.sensor>>})
    \cup {<<"modifiers", r.modifiers[i]>> : i \in 1..index}

(* The entries a tile's constraints list under a top-level key (provides,
   requires) or under a key of allow or disallow. *)
Listed(tile, key) ==
  IF "constraints" \in DOMAIN tile /\ key \in DOMAIN tile.constraints
  THEN Range(tile.constraints[key]) ELSE {}

ListedIn(tile, group, key) ==
  IF /\ "constraints" \in DOMAIN tile
     /\ group \in DOMAIN tile.constraints
     /\ key \in DOMAIN tile.constraints[group]
  THEN Range(tile.constraints[group][key]) ELSE {}

(* What a set of sources provides, allows and disallows together. *)
AllListed(sources, key) ==
  UNION {Listed(tiles[src[1]][src[2]], key) : src \in sources}

AllListedIn(sources, group, key) ==
  UNION {ListedIn(tiles[src[1]][src[2]], group, key) : src \in sources}

(* The three checks of a candidate tile against the sources. *)
PassesRequires(tile, sources) ==
  \/ ~("constraints" \in DOMAIN tile /\ "requires" \in DOMAIN tile.constraints)
  \/ Listed(tile, "requires") \cap AllListed(sources, "provides") # {}

PassesAllow(tile, sources) ==
  \/ tile.category \in AllListedIn(sources, "allow", "categories")
  \/ tile.tid \in AllListedIn(sources, "allow", "tiles")

PassesDisallow(tile, sources) ==
  /\ tile.category \notin AllListedIn(sources, "disallow", "categories")
  /\ tile.tid \notin AllListedIn(sources, "disallow", "tiles")

(* The candidates of a partition that pass all three checks. *)
Compatible(partition, sources) ==
  {k \in Visible(partition) :
     /\ PassesRequires(partition[k], sources)
     /\ PassesAllow(partition[k], sources)
     /\ PassesDisallow(partition[k], sources)}

(* s is exactly the given set of tiles, in weight order. *)
IsExactly(partition, keys, s, set) ==
  /\ Range(s) = set
  /\ InWeightOrder(partition, keys, s)

(* The tile before position index of a chain carries handling.terminal. *)
TerminalBefore(partition, chain, index) ==
  /\ index > 0
  /\ LET tile == partition[chain[index]] IN
       /\ "constraints" \in DOMAIN tile
       /\ "handling" \in DOMAIN tile.constraints
       /\ "terminal" \in DOMAIN tile.constraints.handling
       /\ tile.constraints.handling["terminal"] = TRUE

(* C2: at a position whose preceding tile is not terminal the filter
   (modifier) suggestions are exactly the non-hidden filters (modifiers), in
   weight order, that pass the requires, allow and disallow checks against
   the sensor and the filters before the position (the actuator, the sensor
   and the modifiers before the position); the tiles from the position on do
   not change the result. *)
C2_SuggestionsAreTheCompatibleSet ==
  /\ (op = "getFilterSuggestions"
        /\ ~TerminalBefore(tiles.filters, rule.filters, idx))
     => /\ IsExactly(tiles.filters, tileKeys.filters, out,
                     Compatible(tiles.filters, FilterSources(rule, idx)))
        /\ out = getFilterSuggestions(
                   [rule EXCEPT !.filters = SubSeq(@, 1, idx)], idx)
  /\ (op = "getModifierSuggestions"
        /\ ~TerminalBefore(tiles.modifiers, rule.modifiers, idx))
     => /\ IsExactly(tiles.modifiers, tileKeys.modifiers, out,
                     Compatible(tiles.modifiers, ModifierSources(rule, idx)))
        /\ out = getModifierSuggestions(
                   [rule EXCEPT !.modifiers = SubSeq(@, 1, idx)], idx)

(* A rule with See, nearby and Kodu, asked for the filters at position 1:
   some filters are suggested and some are not, and a filter follows the
   position. *)
C2_Witness ==
  /\ op = "getFilterSuggestions"
  /\ rule.sensor = "S2"
  /\ rule.filters = <<"F4", "F1">>
  /\ idx = 1
  /\ out # <<>>
  /\ Range(out) # Visible(tiles.filters)

(* C3: after a tile that carries handling.terminal no filter (modifier) is
   suggested, whatever the rest of the rule is. *)
C3_TerminalShortCircuit ==
  /\ (op = "getFilterSuggestions"
        /\ TerminalBefore(tiles.filters, rule.filters, idx))
     => out = <<>>
  /\ (op = "getModifierSuggestions"
        /\ TerminalBefore(tiles.modifiers, rule.modifiers, idx))
     => out = <<>>

(* Switch page with page 1 placed, asked for the modifiers at position 1:
   the actuator allows every page tile and nothing disallows one. *)
C3_Witness ==
  /\ op = "getModifierSuggestions"
  /\ rule.actuator = "A2"
  /\ rule.modifiers = <<"M11">>
  /\ idx = 1
  /\ out = <<>>
  /\ Compatible(tiles.modifiers, ModifierSources(rule, idx)) # {}

(* C4: the sensor (actuator) suggestions are exactly the non-hidden sensors
   (actuators), by non-decreasing weight with an absent weight counted as
   100 and equal weights in declaration order, and they are the same list
   for every rule. *)
C4_AnchorSuggestions ==
  /\ op = "getSensorSuggestions"
     => /\ IsExactly(tiles.sensors, tileKeys.sensors, out, Visible(tiles.sensors))
        /\ out = <<"S2", "S3", "S4", "S5", "S6", "S7">>
  /\ op = "getActuatorSuggestions"
     => /\ IsExactly(tiles.actuators, tileKeys.actuators, out,
                     Visible(tiles.actuators))
        /\ out = <<"A1", "A2", "A3", "A5", "A6">>

(* The sensors suggested for a rule that has the hidden sensor, a filter, an
   actuator and a modifier. *)
C4_Witness ==
  /\ op = "getSensorSuggestions"
  /\ rule.sensor = "S1"
  /\ rule.filters # <<>>
  /\ rule.actuator # Undefined
  /\ rule.modifiers # <<>>
  /\ Len(out) = 6

(* C5: with sensor See and no filter, Kodu is suggested at position 0; with
   Kodu placed at position 0, neither Tree nor any other subject filter is
   suggested at position 1. *)
C5_SeeKoduExample ==
  /\ (op = "getFilterSuggestions" /\ rule.sensor = "S2"
        /\ rule.filters = <<>> /\ idx = 0)
     => "F1" \in Range(out)
  /\ (op = "getFilterSuggestions" /\ rule.sensor = "S2"
        /\ Len(rule.filters) >= 1 /\ rule.filters[1] = "F1" /\ idx = 1)
     => /\ "F2" \notin Range(out)
        /\ \A k \in Range(out) : tiles.filters[k].category # "subject"

(* See with Kodu placed, asked for the filters at position 1: filters of
   other categories are still suggested. *)
C5_Witness ==
  /\ op = "getFilterSuggestions"
  /\ rule.sensor = "S2"
  /\ rule.filters = <<"F1">>
  /\ idx = 1
  /\ "F4" \in Range(out)

(* C6: where the sources of a position list no allow entry, in particular
   at every filter position of a rule without sensor or with the sensor
   Always, nothing is suggested. *)
C6_NoAllowNoSuggestions ==
  /\ (op = "getFilterSuggestions"
        /\ AllListedIn(FilterSources(rule, idx), "allow", "categories") = {}
        /\ AllListedIn(FilterSources(rule, idx), "allow", "tiles") = {})
     => out = <<>>
  /\ (op = "getFilterSuggestions" /\ rule.sensor \in {Undefined, "S1"})
     => out = <<>>
  /\ (op = "getModifierSuggestions"
        /\ AllListedIn(ModifierSources(rule, idx), "allow", "categories") = {}
        /\ AllListedIn(ModifierSources(rule, idx), "allow", "tiles") = {})
     => out = <<>>

(* The sensor Always with a timespan filter placed, asked for the filters
   at position 1: no source lists an allow entry, and there are filters that
   pass the requires and disallow checks. *)
C6_Witness ==
  /\ op = "getFilterSuggestions"
  /\ rule.sensor = "S1"
  /\ rule.filters = <<"F8">>
  /\ idx = 1
  /\ out = <<>>
  /\ \E k \in Visible(tiles.filters) :
       /\ PassesRequires(tiles.filters[k], FilterSources(rule, idx))
       /\ PassesDisallow(tiles.filters[k], FilterSources(rule, idx))

(* C10: one call of ensureValid leaves a rule in which no sensor implies no
   filters and no actuator implies no modifiers; it keeps the condition, the
   sensor and the actuator, keeps the filters when there is a sensor and the
   modifiers when there is an actuator. *)
C10_EnsureValidOnePass ==
  [][op' = "ensureValid" =>
       /\ rule'.sensor = Undefined => rule'.filters = <<>>
       /\ rule'.actuator = Undefined => rule'.modifiers = <<>>
       /\ rule'.condition = rule.condition
       /\ rule'.sensor = rule.sensor
       /\ rule'.actuator = rule.actuator
       /\ rule.sensor # Undefined => rule'.filters = rule.filters
       /\ rule.actuator # Undefined => rule'.modifiers = rule.modifiers]_vars

(* ensureValid has run on a rule decoded from a record with modifiers and no
   actuator, and with a sensor and filters. *)
C10_Witness ==
  /\ op = "ensureValid"
  /\ Has(obj, "M") /\ ~Has(obj, "A")
  /\ Has(obj, "S") /\ Has(obj, "F")
  /\ rule.modifiers = <<>>
  /\ rule.filters # <<>>

(* The rule and its record at position i of page p of the brain. *)
RuleAt(p, i) == brain.pages[p].rules[i]

RecordAt(p, i) == obj["P"][p]["R"][i]

(* The brain record holds one rule record for every rule of the brain. *)
RecordsMatchRules ==
  /\ Len(obj["P"]) = Len(brain.pages)
  /\ \A p \in 1..Len(brain.pages) :
       Len(OrEmpty(obj["P"][p], "R")) = Len(brain.pages[p].rules)

(* C1: decoding the encoding of a brain whose tiles are all in the catalog
   gives a brain equal to it, whatever the conditions of its rules. *)
C1_RoundTrip ==
  BrainDefn_FromObj(BrainDefn_toObj(brain)) = brain

(* C7: the record of a rule whose condition is the default has no key C, and
   a rule decoded from a record without key C has the default condition. *)
C7_DefaultConditionOmitted ==
  /\ (op = "BrainDefn.toObj" /\ RecordsMatchRules)
     => \A p \in 1..Len(brain.pages) :
          \A i \in 1..Len(brain.pages[p].rules) :
            RuleAt(p, i).condition = RuleCondition.DEFAULT
              => ~Has(RecordAt(p, i), "C")
  /\ (op = "BrainDefn.FromObj" /\ Has(obj, "P"))
     => \A p \in 1..Len(brain.pages) :
          \A i \in 1..Len(brain.pages[p].rules) :
            ~Has(RecordAt(p, i), "C")
              => RuleAt(p, i).condition = RuleCondition.DEFAULT

(* C8: a brain has exactly 5 pages, however it was produced, and its record
   has exactly 5 page records. *)
C8_FivePages ==
  /\ Len(brain.pages) = 5
  /\ op = "BrainDefn.toObj" => Len(obj["P"]) = 5

(* C9: a rule record has key S iff the rule has a sensor, A iff it has an
   actuator, F iff it has filters, M iff it has modifiers, each holding the
   tile identifiers in placement order; a page record has key R iff the page
   has a rule. *)
C9_OnlyPresentFields ==
  op = "BrainDefn.toObj" =>
    /\ Len(obj["P"]) = Len(brain.pages)
    /\ \A p \in 1..Len(brain.pages) :
         /\ Has(obj["P"][p], "R") <=> Len(brain.pages[p].rules) >= 1
         /\ Has(obj["P"][p], "R") =>
              /\ Len(obj["P"][p]["R"]) = Len(brain.pages[p].rules)
              /\ \A i \in 1..Len(brain.pages[p].rules) :
                   LET r == RuleAt(p, i)
                       rec == RecordAt(p, i)
                   IN /\ Has(rec, "S") <=> r.sensor # Undefined
                      /\ Has(rec, "S") => rec["S"] = tiles.sensors[r.sensor].tid
                      /\ Has(rec, "A") <=> r.actuator # Undefined
                      /\ Has(rec, "A") => rec["A"] = tiles.actuators[r.actuator].tid
                      /\ Has(rec, "F") <=> r.filters # <<>>
                      /\ Has(rec, "F") =>
                           rec["F"] = [j \in 1..Len(r.filters) |->
                                         tiles.filters[r.filters[j]].tid]
                      /\ Has(rec, "M") <=> r.modifiers # <<>>
                      /\ Has(rec, "M") =>
                           rec["M"] = [j \in 1..Len(r.modifiers) |->
                                         tiles.modifiers[r.modifiers[j]].tid]

(* The encoding of a brain with an empty page and a page of two rules, the
   first with a sensor and two filters and nothing else, the second with
   nothing at all. *)
C9_Witness ==
  /\ op = "BrainDefn.toObj"
  /\ \E p \in 1..Len(brain.pages) : brain.pages[p].rules = <<>>
  /\ \E p \in 1..Len(brain.pages) :
       /\ Len(brain.pages[p].rules) = 2
       /\ RuleAt(p, 1).sensor = "S2"
       /\ RuleAt(p, 1).filters = <<"F4", "F1">>
       /\ RuleAt(p, 1).actuator = Undefined
       /\ RuleDefn_isEmpty(RuleAt(p, 2))
       /\ RuleAt(p, 2).filters = <<>>

(* C11: ensureValid applied to the result of ensureValid changes nothing. *)
C11_EnsureValidIdempotent ==
  op = "ensureValid" => ensureValid(rule) = rule

(* ensureValid has run on a rule decoded from a record with two modifiers
   and no actuator. *)
C11_Witness ==
  /\ op = "ensureValid"
  /\ Has(obj, "M") /\ ~Has(obj, "A")
  /\ Len(obj["M"]) = 2
  /\ rule.modifiers = <<>>

(* A rule with neither sensor nor actuator. *)
NoAnchor(r) == r.sensor = Undefined /\ r.actuator = Undefined

(* C12: trim of a brain leaves of every page the rules before its maximal
   suffix of empty rules, unchanged and in order: what is removed is empty,
   and what is left is empty or ends with a non-empty rule. *)
C12_TrimRemovesEmptySuffix ==
  [][op' = "BrainDefn.trim" =>
       /\ Len(brain'.pages) = Len(brain.pages)
       /\ \A p \in 1..Len(brain.pages) :
            LET old == brain.pages[p].rules
                new == brain'.pages[p].rules
            IN /\ Len(new) <= Len(old)
               /\ new = SubSeq(old, 1, Len(new))
               /\ \A j \in (Len(new) + 1)..Len(old) : NoAnchor(old[j])
               /\ Len(new) = 0 \/ ~NoAnchor(new[Len(new)])]_vars

(* The brain decoded from a record whose first page holds two empty rules, a
   rule with a sensor and an empty rule, trimmed: the first three are left. *)
C12_Witness ==
  /\ op = "BrainDefn.trim"
  /\ Len(OrEmpty(obj["P"][1], "R")) = 4
  /\ brain.pages[1].rules = SubSeq(PageDefn_FromObj(obj["P"][1]).rules, 1, 3)
  /\ NoAnchor(brain.pages[1].rules[1])
  /\ NoAnchor(brain.pages[1].rules[2])
  /\ brain.pages[1].rules[3].sensor = "S2"

(* C13: deleteRuleAt(index) on a page leaves the page as it is when index < 0
   or index >= length, and otherwise removes the rule at position index and
   nothing else; the other pages are untouched. *)
C13_DeleteRuleAt ==
  [][op' = "PageDefn.deleteRuleAt" =>
       /\ Len(brain'.pages) = Len(brain.pages)
       /\ \E p \in 1..Len(brain.pages) :
            /\ \A q \in 1..Len(brain.pages) : q # p => brain'.pages[q] = brain.pages[q]
            /\ LET old == brain.pages[p].rules
                   new == brain'.pages[p].rules
               IN IF idx' < 0 \/ idx' >= Len(old)
                  THEN new = old
                  ELSE /\ Len(new) = Len(old) - 1
                       /\ \A j \in 1..Len(new) :
                            new[j] = IF j <= idx' THEN old[j] ELSE old[j + 1]]_vars

(* deleteRuleAt was called with index = length on the untouched brain: its
   first page has three rules and no page has more than that. *)
C13_Witness ==
  /\ op = "PageDefn.deleteRuleAt"
  /\ idx = 3
  /\ Len(brain.pages[1].rules) = 3
  /\ brain = BrainDefn_FromObj(obj)

(* C14: a rule decoded from a record has a sensor and an actuator when the
   record names one, and no undefined element in its filters and modifiers
   (the code has no path that reports an unresolvable reference, so a record
   naming a tile the catalog lacks can only be decoded to such a rule). *)
C14_NoUndefinedReference ==
  op = "RuleDefn.FromObj" =>
    /\ Has(obj, "S") => rule.sensor # Undefined
    /\ Has(obj, "A") => rule.actuator # Undefined
    /\ \A i \in 1..Len(rule.filters) : rule.filters[i] # Undefined
    /\ \A i \in 1..Len(rule.modifiers) : rule.modifiers[i] # Undefined

(* Every tile of a chain consists of copies of one tile. *)
AllCopies(chain, t) == \A i \in 1..Len(chain) : chain[i] = t

(* C16: max-count does not filter: after see and n copies of nearby (of
   faraway) the filter suggestions at position n still hold nearby (faraway),
   and after move and n copies of quickly (of slowly) the modifier
   suggestions at position n still hold quickly (slowly), for every n. *)
C16_MaxCountNotEnforced ==
  /\ rule.sensor = "S2" =>
       \A t \in {"F4", "F5"} :
         AllCopies(rule.filters, t) =>
           t \in Range(getFilterSuggestions(rule, Len(rule.filters)))
  /\ rule.actuator = "A1" =>
       \A t \in {"M6", "M7"} :
         AllCopies(rule.modifiers, t) =>
           t \in Range(getModifierSuggestions(rule, Len(rule.modifiers)))

(* see followed by three copies of nearby, as many as its max-count. *)
C16_Witness ==
  /\ rule.sensor = "S2"
  /\ rule.filters = <<"F4", "F4", "F4">>
  /\ tiles.filters["F4"].constraints.handling["max-count"] = 3
  /\ op = "rule.filters.push"

(* C17: a rule without sensor has no filters and a rule without actuator has
   no modifiers, in every state of the authoring protocol. *)
C17_DependencyInvariant ==
  /\ rule.sensor = Undefined => rule.filters = <<>>
  /\ rule.actuator = Undefined => rule.modifiers = <<>>

(* Every filter and every modifier of the rule is suggested at its position
   by the rule as it is now. *)
ChainLegal ==
  /\ \A j \in 1..Len(rule.filters) :
       rule.filters[j] \in Range(getFilterSuggestions(rule, j - 1))
  /\ \A j \in 1..Len(rule.modifiers) :
       rule.modifiers[j] \in Range(getModifierSuggestions(rule, j - 1))

(* C19, as stated: the chains are legal in every state reached by setting
   and replacing anchors and appending suggested tiles. *)
C19_ChainLegalUnderEdits == ChainLegal

(* C19, amended: the chains are legal as long as no sensor or actuator was
   replaced by another one while a chain was not empty. *)
C19_ChainLegalWithoutSwap == ~swapped => ChainLegal

(* Both chains hold tiles, the actuator was set after a modifier was
   appended, and nothing was replaced. *)
C19_Witness ==
  /\ ~swapped
  /\ op = "rule.actuator ="
  /\ rule.sensor = "S2" /\ rule.actuator = "A3"
  /\ rule.filters = <<"F1", "F4">>
  /\ rule.modifiers = <<"M16">>

(* No tile of the chain but the last carries handling.terminal. *)
TerminalOnlyLast(partition, chain) ==
  \A i \in 1..(Len(chain) - 1) : ~TerminalBefore(partition, chain, i)

(* C20: in a rule with fixed anchors whose chains grow by suggested tiles
   only, no tile follows a terminal tile, and no tile has a category or an
   identifier that the anchors merged for its chain or a tile before it in
   the chain disallow. *)
C20_AppendOnlyConflictFree ==
  /\ TerminalOnlyLast(tiles.filters, rule.filters)
  /\ TerminalOnlyLast(tiles.modifiers, rule.modifiers)
  /\ \A j \in 1..Len(rule.filters) :
       PassesDisallow(tiles.filters[rule.filters[j]], FilterSources(rule, j - 1))
  /\ \A j \in 1..Len(rule.modifiers) :
       PassesDisallow(tiles.modifiers[rule.modifiers[j]], ModifierSources(rule, j - 1))

(* A subject filter and a distance filter after see, and the terminal page 1
   after switch page. *)
C20_Witness ==
  /\ rule.sensor = "S2" /\ rule.actuator = "A2"
  /\ rule.filters = <<"F2", "F5">>
  /\ rule.modifiers = <<"M11">>
  /\ TerminalBefore(tiles.modifiers, rule.modifiers, 1)

(* The tiles that contribute at position index of a chain, in the order of
   contribution. *)
FilterContributors(r, index) ==
  (IF r.sensor = Undefined THEN <<>> ELSE <<tiles.sensors[r.sensor]>>)
    \o [i \in 1..index |-> tiles.filters[r.filters[i]]]

ModifierContributors(r, index) ==
  (IF r.actuator = Undefined THEN <<>> ELSE <<tiles.actuators[r.actuator]>>)
    \o (IF r.sensor = Undefined THEN <<>> ELSE <<tiles.sensors[r.sensor]>>)
    \o [i \in 1..index |-> tiles.modifiers[r.modifiers[i]]]

(* The list a tile's constraints hold under a key, or under a key of allow
   or disallow; empty when the tile has no such entry. *)
ListOf(tile, key) ==
  IF "constraints" \in DOMAIN tile /\ key \in DOMAIN tile.constraints
  THEN tile.constraints[key] ELSE <<>>

ListIn(tile, group, key) ==
  IF /\ "constraints" \in DOMAIN tile
     /\ group \in DOMAIN tile.constraints
     /\ key \in DOMAIN tile.constraints[group]
  THEN tile.constraints[group][key] ELSE <<>>

(* The handling keys of a tile. *)
HandlingKeys(tile) ==
  IF "constraints" \in DOMAIN tile /\ "handling" \in DOMAIN tile.constraints
  THEN DOMAIN tile.constraints.handling ELSE {}

(* The concatenation of a sequence of lists. *)
RECURSIVE Concat(_)
Concat(lists) ==
  IF lists = <<>> THEN <<>> ELSE Head(lists) \o Concat(Tail(lists))

(* What the contributors accumulate to: every list concatenated in the
   order of contribution, every handling key with the value of the last
   contributor that has it. *)
Accumulated(from) ==
  [provides |-> Concat([i \in 1..Len(from) |-> ListOf(from[i], "provides")]),
   requires |-> Concat([i \in 1..Len(from) |-> ListOf(from[i], "requires")]),
   allow    |->
     [tiles      |-> Concat([i \in 1..Len(from) |-> ListIn(from[i], "allow", "tiles")]),
      categories |-> Concat([i \in 1..Len(from) |-> ListIn(from[i], "allow", "categories")])],
   disallow |->
     [tiles      |-> Concat([i \in 1..Len(from) |-> ListIn(from[i], "disallow", "tiles")]),
      categories |-> Concat([i \in 1..Len(from) |-> ListIn(from[i], "disallow", "categories")])],
   handling |->
     [key \in UNION {HandlingKeys(from[i]) : i \in 1..Len(from)} |->
        LET last == CHOOSE i \in 1..Len(from) :
                      /\ key \in HandlingKeys(from[i])
                      /\ \A j \in (i + 1)..Len(from) : key \notin HandlingKeys(from[j])
        IN from[last].constraints.handling[key]]]

(* C18: at every position of the modifier chain the built-up constraints are
   those of the actuator, the sensor and the modifiers before the position,
   accumulated in this order; at every position of the filter chain those of
   the sensor and the filters before the position. *)
C18_AccumulationOrder ==
  /\ \A index \in 0..Len(rule.modifiers) :
       ModifierConstraints(rule, CollectExisting(rule.modifiers, index))
         = Accumulated(ModifierContributors(rule, index))
  /\ \A index \in 0..Len(rule.filters) :
       FilterConstraints(rule, CollectExisting(rule.filters, index))
         = Accumulated(FilterContributors(rule, index))

(* Modifier suggestions were asked at position 2 of a rule with actuator,
   sensor and two modifiers, one with max-count and one terminal: both
   handling keys are accumulated, and allow lists the actuator's categories
   before the sensor's. *)
C18_Witness ==
  /\ op = "getModifierSuggestions" /\ idx = 2
  /\ rule.actuator = "A2" /\ rule.sensor = "S2"
  /\ rule.modifiers = <<"M6", "M11">>
  /\ DOMAIN ModifierConstraints(rule, rule.modifiers).handling = {"max-count", "terminal"}
  /\ Head(ModifierConstraints(rule, rule.modifiers).allow.categories) = "page"

(* The rule, page or brain an address stands for, as a value. *)
RECURSIVE ValueAt(_, _)
ValueAt(h, a) ==
  IF h[a].kind = "RuleDefn"
  THEN [condition |-> h[a].condition,
        sensor    |-> h[a].sensor,
        actuator  |-> h[a].actuator,
        filters   |-> h[h[a].filters].items,
        modifiers |-> h[h[a].modifiers].items]
  ELSE IF h[a].kind = "PageDefn"
  THEN [rules |-> [i \in 1..Len(h[h[a].rules].items) |->
                     ValueAt(h, h[h[a].rules].items[i])]]
  ELSE [pages |-> [i \in 1..Len(h[h[a].pages].items) |->
                     ValueAt(h, h[h[a].pages].items[i])]]

(* C15: x.clone() leaves x as it was and gives a copy with the same fields,
   the same rules in the same order and the same tile references; the copy
   and x have no object in common, at the clone and after every mutation;
   and a mutation through one of them leaves the other as it was. *)
C15_CloneIndependent ==
  [][/\ op' = "clone" =>
          /\ ValueAt(heap', orig') = ValueAt(heap, orig')
          /\ ValueAt(heap', copy') = ValueAt(heap', orig')
     /\ copy' # 0 => Reach(heap', orig') \cap Reach(heap', copy') = {}
     /\ side' = "copy" => ValueAt(heap', orig') = ValueAt(heap, orig)
     /\ side' = "orig" => ValueAt(heap', copy') = ValueAt(heap, copy)]_vars

(* A tile was pushed through the clone of a brain: the clone differs from
   the brain, which is still what was decoded. *)
C15_Witness ==
  /\ copy # 0 /\ side = "copy" /\ op = "push"
  /\ heap[orig].kind = "BrainDefn"
  /\ ValueAt(heap, orig) = brain
  /\ ValueAt(heap, copy) # brain

====
